---- MODULE Spec2Model ----
(***************************************************************************)
(* tilda-tesla backend: the progress-streaming protocol of                 *)
(* /api/analyze-video and /api/analyze-image (backend/app.py) together     *)
(* with the progress notifications of VideoAnalyzer.analyze_video and      *)
(* VideoAnalyzer.analyze_image (backend/analysis.py).                      *)
(*                                                                         *)
(* One job is modelled: a worker thread (run_analysis) that pushes         *)
(* progress events and one outcome on three queue.Queue objects, and the   *)
(* consumer, the generator generate_progress, that polls the queues and    *)
(* yields events to the HTTP event stream.                                 *)
(***************************************************************************)
EXTENDS Integers, Sequences, FiniteSets, TLC

(* ------------------------------ bounds --------------------------------- *)

\* The wall clock is observed at a granularity of ClockStep seconds, up to
\* MaxElapsed seconds after the start of the job.
ClockStep == 100
MaxElapsed == 400

(* ------------------------- program constants --------------------------- *)

\* analysis_thread.join(timeout=300.0)
JOIN_TIMEOUT == 300
\* for attempt in range(10)
RETRY_ATTEMPTS == 10
\* if progress_callback and extracted_count % 5 == 0
PROGRESS_EVERY == 5

(* ------------------------------ helpers -------------------------------- *)

Abs(x) == IF x < 0 THEN -x ELSE x

Max(a, b) == IF a >= b THEN a ELSE b

\* Python's int(a / b) for integers a, b with b # 0: truncation toward zero.
IntDiv(a, b) ==
    IF (a >= 0) = (b > 0) THEN Abs(a) \div Abs(b) ELSE -(Abs(a) \div Abs(b))

Last(s) == s[Len(s)]

\* A progress event: the (progress, step) pair handed to progress_callback.
\* n is the frame number formatted into the step text (0 when there is none).
PEv(p, s, n) == [progress |-> p, step |-> s, n |-> n]

\* An event of the HTTP stream: one "data: ..." chunk yielded by the generator.
SEv(t, e) == [type |-> t, progress |-> e.progress, step |-> e.step, n |-> e.n]

NoResult == [type |-> "none", progress |-> 0, step |-> "", n |-> 0]

(* ------------------------------- jobs ---------------------------------- *)

\* The inputs of one job: the endpoint, whether get_analyzer returned an
\* analyzer, what the media file is like and the request's settings.
MkJob(e, a, o, h, f, r, t, n, sf, sa, st) ==
    [endpoint |-> e, analyzer |-> a, canOpen |-> o, hangs |-> h,
     fps |-> f, extract_fps |-> r, total_frames |-> t, frames_readable |-> n,
     saveFrames |-> sf, saveAnnotated |-> sa, saveForTraining |-> st]

Endpoints == {"video", "image"}

\* Source frame rates reported by the container (0: not available).
FpsValues == {0, 2}
\* settings['fps']
RateValues == {1, 4}
\* CAP_PROP_FRAME_COUNT as reported by the container.
FrameCounts == {0, 11}
\* Number of frames cap.read() actually delivers.
ReadableCounts == {0, 6, 11}

VideoJobs ==
    { MkJob("video", TRUE, TRUE, FALSE, f, r, t, n, sf, sa, st) :
        f \in FpsValues, r \in RateValues, t \in FrameCounts,
        n \in ReadableCounts, sf \in BOOLEAN, sa \in BOOLEAN, st \in BOOLEAN }

ImageJobs ==
    { MkJob("image", TRUE, TRUE, FALSE, 0, 1, 1, 1, TRUE, sa, st) :
        sa \in BOOLEAN, st \in BOOLEAN }

\* Jobs that fail or hang early; the settings that are never read keep their
\* defaults.
FailingJobs ==
    { MkJob(e, a, o, h, 2, 1, 11, 6, TRUE, TRUE, FALSE) :
        e \in Endpoints,
        a \in BOOLEAN, o \in BOOLEAN, h \in BOOLEAN } \
    { MkJob(e, TRUE, TRUE, FALSE, 2, 1, 11, 6, TRUE, TRUE, FALSE) :
        e \in Endpoints }

Jobs == VideoJobs \cup ImageJobs \cup FailingJobs

(* ------------------------------ state ---------------------------------- *)

VARIABLES
    job,              \* the request: media and settings
    wpc,              \* position of the worker thread run_analysis
    frame_idx,        \* analyze_video: frame_idx
    extracted_count,  \* analyze_video: extracted_count
    widx,             \* number of phase notifications already made
    progress_queue,   \* queue.Queue of (progress, step)
    result_queue,     \* queue.Queue of result dicts
    error_queue,      \* queue.Queue of exceptions
    cpc,              \* position of the generator generate_progress
    result,           \* generate_progress: result (NoResult is None)
    attempt,          \* generate_progress: attempt of the retry loop
    stream,           \* the events yielded to the HTTP response so far
    raised,           \* exception that left the generator ("none": none)
    elapsed,          \* seconds since the request arrived
    joinStart,        \* value of elapsed when join() was called
    pushed            \* history: every put of the worker, in order

\* The quality score of analyze_video (analysis.py:180-189).
VARIABLES
    qpc,              \* position of the quality score computation
    avg_brightness,   \* analyze_video: avg_brightness
    avg_contrast,     \* analyze_video: avg_contrast
    dynamic_range,    \* analyze_video: dynamic_range
    quality_score     \* analyze_video: quality_score, in units of 1/25500

\* The per-frame results and the aggregation of analyze_video
\* (analysis.py:59-337) and the analysis of a still image (analysis.py:339-428).
VARIABLES
    apc,                 \* position: "open", "loop", "done", "image_done",
                         \* "raised"
    video,               \* the inputs: media file, settings, loaded models
    frame_inputs,        \* the frames analysed so far, as they were read
    agg_frame_idx,       \* analyze_video: frame_idx
    agg_extracted_count, \* analyze_video: extracted_count
    vehicle_counts,      \* analyze_video: vehicle_counts
    human_counts,        \* analyze_video: human_counts
    confidences,         \* analyze_video: confidences
    weather_conditions,  \* analyze_video: weather_conditions
    brightness_values,   \* analyze_video: brightness_values
    contrast_values,     \* analyze_video: contrast_values
    frame_images,        \* analyze_video: frame_images
    chart_failure,       \* the chart whose rendering raised, or "none"
    agg_raised,          \* the exception that left analyze_video, or ""
    analysis,            \* analyze_video: the fields of the returned result
    image_result         \* analyze_image: the fields of the returned result

\* The submission of jobs to /api/analyze/video and /api/analyze/image
\* (app.py:105-122, 267-284).
VARIABLES
    now,                 \* int(time.time()): the wall clock in whole seconds
    requests,            \* per request: position and local variables
    directories,         \* the directories that exist under OUTPUT_DIR
    files,               \* path -> the request whose upload the file holds
    next_queue           \* identity of the next queue.Queue() object

\* The analyzer registry get_analyzer and the jobs that use an analyzer
\* (app.py:34-57, 115, 135).
VARIABLES
    analyzer_global,     \* the global _analyzer: a handle, 0 for None
    heap,                \* the VideoAnalyzer objects, by handle
    calls,               \* per request thread: position and local variables
    calls_made           \* number of get_analyzer calls so far

\* The weather label of one image: _analyze_weather and
\* _estimate_weather_from_image (analysis.py:463-556).
VARIABLES
    wxpc,                \* position: "start", "estimate", "decide", "done"
    wx_input,            \* the weather model's outcome and the image
    sky_gray_ratio,      \* _estimate_weather_from_image: sky_gray_ratio
    weather_out          \* the label returned by _analyze_weather

streamVars == <<job, wpc, frame_idx, extracted_count, widx, progress_queue,
                result_queue, error_queue, cpc, result, attempt, stream,
                raised, elapsed, joinStart, pushed>>

qualityVars == <<qpc, avg_brightness, avg_contrast, dynamic_range,
                 quality_score>>

\* The per-frame lists of analyze_video.
frameLists ==
    <<vehicle_counts, human_counts, confidences, weather_conditions,
      brightness_values, contrast_values, frame_images>>

aggVars ==
    <<apc, video, frame_inputs, agg_frame_idx, agg_extracted_count, frameLists,
      chart_failure, agg_raised, analysis, image_result>>

submitVars == <<now, requests, directories, files, next_queue>>

registryVars == <<analyzer_global, heap, calls, calls_made>>

weatherVars == <<wxpc, wx_input, sky_gray_ratio, weather_out>>

\* The variables the streaming protocol of one job leaves alone.
otherVars ==
    <<qualityVars, aggVars, submitVars, registryVars,
      weatherVars>>

\* The variables the quality score computation leaves alone.
notQualityVars ==
    <<streamVars, aggVars, submitVars, registryVars,
      weatherVars>>

\* The variables the aggregation leaves alone.
notAggVars ==
    <<streamVars, qualityVars, submitVars, registryVars,
      weatherVars>>

\* The variables the submission of jobs leaves alone.
notSubmitVars ==
    <<streamVars, qualityVars, aggVars, registryVars,
      weatherVars>>

\* The variables the weather label computation leaves alone.
notWeatherVars ==
    <<streamVars, qualityVars, aggVars, submitVars, registryVars>>

\* The variables the analyzer registry leaves alone.
notRegistryVars ==
    <<streamVars, qualityVars, aggVars, submitVars,
      weatherVars>>

vars == <<streamVars, otherVars>>

workerVars == <<wpc, frame_idx, extracted_count, widx, progress_queue,
                result_queue, error_queue, pushed>>

consumerVars == <<cpc, result, attempt, stream, raised, elapsed, joinStart>>

\* Nothing has been submitted to the quality score computation.
QualityIdle ==
    /\ qpc = "off"
    /\ avg_brightness = 0
    /\ avg_contrast = 0
    /\ dynamic_range = 0
    /\ quality_score = 0

\* An empty dict.
EmptyDict == [x \in {} |-> 0]

\* The result of analyze_video before it is built.
NoAnalysis ==
    [weather |-> "", totalFrames |-> 0, weatherDistribution |-> EmptyDict,
     congestion_levels |-> <<>>,
     congestionDistribution |-> [low |-> 0, medium |-> 0, high |-> 0]]

\* No video is being aggregated.
AggIdle ==
    /\ apc = "off"
    /\ video = <<>>
    /\ frame_inputs = <<>>
    /\ agg_frame_idx = 0
    /\ agg_extracted_count = 0
    /\ vehicle_counts = <<>>
    /\ human_counts = <<>>
    /\ confidences = <<>>
    /\ weather_conditions = <<>>
    /\ brightness_values = <<>>
    /\ contrast_values = <<>>
    /\ frame_images = <<>>
    /\ chart_failure = "none"
    /\ agg_raised = ""
    /\ analysis = NoAnalysis
    /\ image_result = <<>>

\* The request handlers that can run at the same time.
Requests == {1, 2}

\* The local variables of a request handler at position pc before it has
\* assigned any of them.
NewRequest(pc) ==
    [pc |-> pc, filename |-> "", timestamp |-> -1, output_path |-> <<>>,
     video_path |-> <<>>, queues |-> {}, media_read |-> 0]

\* No job is being submitted.
SubmitIdle ==
    /\ now = 0
    /\ requests = [r \in Requests |-> NewRequest("off")]
    /\ directories = {}
    /\ files = <<>>
    /\ next_queue = 1

\* The request threads that can call get_analyzer at the same time.
Threads == {1, 2}

\* The local variables of a request thread at position pc before it has
\* assigned any of them.
NewCall(pc) ==
    [pc |-> pc, detection_model |-> "", weather_model |-> "", alone |-> TRUE,
     analyzer |-> 0, captured |-> <<>>, seen |-> <<>>]

\* No request is asking for an analyzer.
RegistryIdle ==
    /\ analyzer_global = 0
    /\ heap = <<>>
    /\ calls = [t \in Threads |-> NewCall("off")]
    /\ calls_made = 0

\* No image is being labelled.
WeatherIdle ==
    /\ wxpc = "off"
    /\ wx_input = <<>>
    /\ sky_gray_ratio = 0
    /\ weather_out = ""

\* No job is being streamed.
StreamIdle ==
    /\ job = MkJob("video", TRUE, TRUE, FALSE, 2, 1, 11, 6, TRUE, TRUE, FALSE)
    /\ wpc = "idle"
    /\ frame_idx = 0
    /\ extracted_count = 0
    /\ widx = 0
    /\ progress_queue = <<>>
    /\ result_queue = <<>>
    /\ error_queue = <<>>
    /\ cpc = "off"
    /\ result = NoResult
    /\ attempt = 0
    /\ stream = <<>>
    /\ raised = "none"
    /\ elapsed = 0
    /\ joinStart = 0
    /\ pushed = <<>>

Init ==
    /\ QualityIdle
    /\ AggIdle
    /\ SubmitIdle
    /\ RegistryIdle
    /\ WeatherIdle
    /\ job \in Jobs
    /\ wpc = "idle"
    /\ frame_idx = 0
    /\ extracted_count = 0
    /\ widx = 0
    /\ progress_queue = <<>>
    /\ result_queue = <<>>
    /\ error_queue = <<>>
    /\ cpc = IF job.endpoint = "video" THEN "yield5" ELSE "start"
    /\ result = NoResult
    /\ attempt = 0
    /\ stream = <<>>
    /\ raised = "none"
    /\ elapsed = 0
    /\ joinStart = 0
    /\ pushed = <<>>

(* ------------------- analysis.py: progress notifications --------------- *)

\* frame_interval = int(fps / extract_fps) if fps > 0 else 1
frame_interval(j) ==
    IF j.fps > 0 THEN IntDiv(j.fps, j.extract_fps) ELSE 1

\* total_frames_to_process =
\*     int(total_frames / frame_interval) if frame_interval > 0 else total_frames
total_frames_to_process(j) ==
    IF frame_interval(j) > 0
    THEN IntDiv(j.total_frames, frame_interval(j))
    ELSE j.total_frames

\* progress = 15 + int((extracted_count / max(total_frames_to_process, 1)) * 60)
\* (the float expression equals the integer quotient for every
\* extracted_count that is a multiple of 5 up to 40 and every divisor up to 60)
FrameProgress(j, ec) ==
    15 + (ec * 60) \div Max(total_frames_to_process(j), 1)

\* The save operations enabled by the settings, in the order they are
\* reported: analyze_video reports saveFrames, saveAnnotated, saveForTraining,
\* analyze_image reports saveAnnotated, saveForTraining.
SaveOps(j) ==
    (IF j.endpoint = "video" /\ j.saveFrames
     THEN <<"Saving extracted frames...">> ELSE <<>>)
    \o (IF j.saveAnnotated
        THEN <<IF j.endpoint = "video" THEN "Saving annotated frames..."
                                       ELSE "Saving annotated image...">>
        ELSE <<>>)
    \o (IF j.saveForTraining THEN <<"Saving training data...">> ELSE <<>>)

\* current_progress = base; progress_increment = budget / enabled_operations;
\* for each enabled operation: current_progress += progress_increment;
\* progress_callback(int(current_progress), ...)
SaveEvents(base, budget, ops) ==
    [k \in 1..Len(ops) |->
        PEv((base * Len(ops) + budget * k) \div Len(ops), ops[k], 0)]

\* analyze_video after the frame loop: 70, 80, the save operations, 98.
VideoTail(j) ==
    <<PEv(70, "Processing results and metadata...", 0),
      PEv(80, "Generating visualisations...", 0)>>
    \o SaveEvents(80, 15, SaveOps(j))
    \o <<PEv(98, "Finalising results...", 0)>>

\* analyze_image: 10, 30, 60, 75, 85, the save operations, 98.
ImageEvents(j) ==
    <<PEv(10, "Loading image", 0),
      PEv(30, "Running vehicle detection", 0),
      PEv(60, "Analysing weather conditions", 0),
      PEv(75, "Checking image quality", 0),
      PEv(85, "Annotating image", 0)>>
    \o SaveEvents(85, 10, SaveOps(j))
    \o <<PEv(98, "Finalising results...", 0)>>

(* --------------------- app.py: the worker thread ----------------------- *)

\* Variant of progress_callback: progress_queue is created with maxsize=1, so
\* put() blocks while an event is waiting.
progress_callback_bounded(ev) ==
    /\ Len(progress_queue) < 1
    /\ progress_queue' = Append(progress_queue, ev)
    /\ pushed' = Append(pushed, SEv("progress", ev))
    /\ UNCHANGED <<result_queue, error_queue>>

\* progress_callback: progress_queue.put((progress, step))
progress_callback(ev) ==
    /\ progress_queue' = Append(progress_queue, ev)
    /\ pushed' = Append(pushed, SEv("progress", ev))
    /\ UNCHANGED <<result_queue, error_queue>>

\* Variant of Raise: the exception handler of run_analysis ends without
\* putting the exception in error_queue.
RaiseSilently(msg) ==
    /\ wpc' = "print"
    /\ UNCHANGED <<frame_idx, extracted_count, widx, progress_queue,
                   result_queue, error_queue, pushed>>

\* except Exception as e: error_queue.put(e)
Raise(msg) ==
    /\ error_queue' = Append(error_queue, msg)
    /\ pushed' = Append(pushed, SEv("error", PEv(0, msg, 0)))
    /\ wpc' = "print"
    /\ UNCHANGED <<frame_idx, extracted_count, widx, progress_queue,
                   result_queue>>

\* run_analysis up to the first notification of the analysis function.
WorkerBegin ==
    /\ wpc = "begin"
    /\ IF ~job.analyzer
       THEN Raise("Analysis module not available")
       ELSE IF job.endpoint = "image"
       THEN /\ progress_callback(ImageEvents(job)[1])
            /\ wpc' = "image"
            /\ widx' = 1
            /\ UNCHANGED <<frame_idx, extracted_count>>
       ELSE IF ~job.canOpen
       THEN Raise("Could not open video")
       ELSE IF job.fps > 0 /\ job.extract_fps = 0
       THEN Raise("float division by zero")
       ELSE /\ progress_callback(PEv(10, "Extracting frames from video...", 0))
            /\ wpc' = "frames"
            /\ UNCHANGED <<frame_idx, extracted_count, widx>>
    /\ UNCHANGED otherVars
    /\ UNCHANGED <<job, consumerVars>>

\* One iteration of the frame loop of analyze_video.
WorkerFrame ==
    /\ wpc = "frames"
    /\ IF frame_idx >= job.frames_readable
       THEN \* ret is False: break, cap.release()
            /\ wpc' = "tail"
            /\ widx' = 0
            /\ UNCHANGED <<frame_idx, extracted_count, progress_queue,
                           result_queue, error_queue, pushed>>
       ELSE IF frame_interval(job) = 0
       THEN \* frame_idx % frame_interval
            Raise("integer modulo by zero")
       ELSE IF frame_idx % Abs(frame_interval(job)) = 0
       THEN /\ IF extracted_count % PROGRESS_EVERY = 0
               THEN progress_callback(
                        PEv(FrameProgress(job, extracted_count),
                            "Running detection on frame", extracted_count + 1))
               ELSE UNCHANGED <<progress_queue, result_queue, error_queue,
                                pushed>>
            /\ IF job.hangs
               THEN \* the detection call does not return
                    /\ wpc' = "hung"
                    /\ UNCHANGED <<frame_idx, extracted_count>>
               ELSE /\ extracted_count' = extracted_count + 1
                    /\ frame_idx' = frame_idx + 1
                    /\ wpc' = wpc
            /\ widx' = widx
       ELSE /\ frame_idx' = frame_idx + 1
            /\ UNCHANGED <<wpc, extracted_count, widx, progress_queue,
                           result_queue, error_queue, pushed>>
    /\ UNCHANGED otherVars
    /\ UNCHANGED <<job, consumerVars>>

\* analyze_video after the frame loop: the next phase notification.
WorkerTail ==
    /\ wpc = "tail"
    /\ progress_callback(VideoTail(job)[widx + 1])
    /\ widx' = widx + 1
    /\ wpc' = IF widx + 1 = Len(VideoTail(job)) THEN "put" ELSE "tail"
    /\ UNCHANGED otherVars
    /\ UNCHANGED <<job, frame_idx, extracted_count, consumerVars>>

\* analyze_image after its first notification: Image.open, then the phases.
WorkerImage ==
    /\ wpc = "image"
    /\ IF widx = 1 /\ ~job.canOpen
       THEN Raise("cannot identify image file")
       ELSE IF widx = 2 /\ job.hangs
       THEN \* the detection call does not return
            /\ wpc' = "hung"
            /\ UNCHANGED <<frame_idx, extracted_count, widx, progress_queue,
                           result_queue, error_queue, pushed>>
       ELSE /\ progress_callback(ImageEvents(job)[widx + 1])
            /\ widx' = widx + 1
            /\ extracted_count' =
                 IF widx + 1 = Len(ImageEvents(job)) THEN 1 ELSE extracted_count
            /\ wpc' = IF widx + 1 = Len(ImageEvents(job)) THEN "put" ELSE "image"
            /\ UNCHANGED frame_idx
    /\ UNCHANGED otherVars
    /\ UNCHANGED <<job, consumerVars>>

\* result_queue.put(result)
WorkerPutResult ==
    /\ wpc = "put"
    /\ result_queue' =
         Append(result_queue, SEv("result", PEv(0, "", extracted_count)))
    /\ pushed' = Append(pushed, SEv("result", PEv(0, "", extracted_count)))
    /\ wpc' = "print"
    /\ UNCHANGED otherVars
    /\ UNCHANGED <<job, frame_idx, extracted_count, widx, progress_queue,
                   error_queue, consumerVars>>

\* Variant of WorkerExit: the print after result_queue.put(result) raises
\* inside the try block, so the except block puts an error as well.
WorkerExitRaises ==
    /\ wpc = "print"
    /\ wpc' = "done"
    /\ IF Len(pushed) > 0 /\ Last(pushed).type = "result"
       THEN /\ error_queue' = Append(error_queue, "print failed")
            /\ pushed' = Append(pushed, SEv("error", PEv(0, "print failed", 0)))
       ELSE UNCHANGED <<error_queue, pushed>>
    /\ UNCHANGED otherVars
    /\ UNCHANGED <<job, frame_idx, extracted_count, widx, progress_queue,
                   result_queue, consumerVars>>

\* The closing print of run_analysis; the thread then ends.
WorkerExit ==
    /\ wpc = "print"
    /\ wpc' = "done"
    /\ UNCHANGED otherVars
    /\ UNCHANGED <<job, frame_idx, extracted_count, widx, progress_queue,
                   result_queue, error_queue, pushed, consumerVars>>

Worker ==
    \/ WorkerBegin
    \/ WorkerFrame
    \/ WorkerTail
    \/ WorkerImage
    \/ WorkerPutResult
    \/ WorkerExit

\* analysis_thread.is_alive()
is_alive == wpc \notin {"idle", "done"}

(* ------------------ app.py: the generator generate_progress ------------- *)

\* yield f"data: {json.dumps(...)}\n\n"
Yield(ev) == stream' = Append(stream, ev)

\* time.sleep(...): the wall clock, observed every ClockStep seconds, either
\* shows the same value after the sleep or the next one.
TimePasses ==
    \/ elapsed' = elapsed
    \/ /\ elapsed + ClockStep <= MaxElapsed
       /\ elapsed' = elapsed + ClockStep

\* raise error / raise Exception(...): the exception leaves the generator.
GeneratorRaises(msg) ==
    /\ raised' = msg
    /\ cpc' = "raised"

\* analyze_video only: yield {'progress': 5, ...}
YieldInitial ==
    /\ cpc = "yield5"
    /\ Yield(SEv("progress", PEv(5, "Initialising video analysis...", 0)))
    /\ cpc' = "sleep5"
    /\ UNCHANGED otherVars
    /\ UNCHANGED <<job, workerVars, result, attempt, raised, elapsed,
                   joinStart>>

\* analyze_video only: time.sleep(0.1) after the initial progress
InitialSleep ==
    /\ cpc = "sleep5"
    /\ TimePasses
    /\ cpc' = "start"
    /\ UNCHANGED otherVars
    /\ UNCHANGED <<job, workerVars, result, attempt, stream, raised,
                   joinStart>>

\* analysis_thread = threading.Thread(target=run_analysis); .start()
StartThread ==
    /\ cpc = "start"
    /\ wpc = "idle"
    /\ wpc' = "begin"
    /\ cpc' = "loop"
    /\ UNCHANGED otherVars
    /\ UNCHANGED <<job, frame_idx, extracted_count, widx, progress_queue,
                   result_queue, error_queue, pushed, result, attempt, stream,
                   raised, elapsed, joinStart>>

\* while analysis_thread.is_alive() or not progress_queue.empty()
\*       or not result_queue.empty():
\* (is_alive() is read first; once it is False the worker puts nothing more,
\* so the three reads of one evaluation see one state)
LoopCheck ==
    /\ cpc = "loop"
    /\ IF is_alive \/ progress_queue # <<>> \/ result_queue # <<>>
       THEN /\ cpc' = "drain"
            /\ UNCHANGED joinStart
       ELSE /\ cpc' = "join"
            /\ joinStart' = elapsed
    /\ UNCHANGED otherVars
    /\ UNCHANGED <<job, workerVars, result, attempt, stream, raised, elapsed>>

\* Variant of DrainProgress: the queue is read from its newest end.
DrainProgressLifo ==
    /\ cpc = "drain"
    /\ IF progress_queue # <<>>
       THEN /\ Yield(SEv("progress", Last(progress_queue)))
            /\ progress_queue' =
                 SubSeq(progress_queue, 1, Len(progress_queue) - 1)
            /\ cpc' = "drain"
       ELSE /\ cpc' = "chkres"
            /\ UNCHANGED <<stream, progress_queue>>
    /\ UNCHANGED otherVars
    /\ UNCHANGED <<job, wpc, frame_idx, extracted_count, widx, result_queue,
                   error_queue, pushed, result, attempt, raised, elapsed,
                   joinStart>>

\* while True: prog, step_msg = progress_queue.get_nowait(); yield ...
\* except queue.Empty: pass
DrainProgress ==
    /\ cpc = "drain"
    /\ IF progress_queue # <<>>
       THEN /\ Yield(SEv("progress", Head(progress_queue)))
            /\ progress_queue' = Tail(progress_queue)
            /\ cpc' = "drain"
       ELSE /\ cpc' = "chkres"
            /\ UNCHANGED <<stream, progress_queue>>
    /\ UNCHANGED otherVars
    /\ UNCHANGED <<job, wpc, frame_idx, extracted_count, widx, result_queue,
                   error_queue, pushed, result, attempt, raised, elapsed,
                   joinStart>>

\* Variant of CheckResult: the item taken from result_queue is not kept and
\* the loop is not left.
CheckResultDiscards ==
    /\ cpc = "chkres"
    /\ cpc' = "chkerr"
    /\ result_queue' = IF result_queue # <<>> THEN Tail(result_queue)
                                              ELSE result_queue
    /\ UNCHANGED otherVars
    /\ UNCHANGED <<job, wpc, frame_idx, extracted_count, widx, progress_queue,
                   error_queue, pushed, result, attempt, stream, raised,
                   elapsed, joinStart>>

\* result = result_queue.get_nowait(); break / except queue.Empty: pass
CheckResult ==
    /\ cpc = "chkres"
    /\ IF result_queue # <<>>
       THEN /\ result' = Head(result_queue)
            /\ result_queue' = Tail(result_queue)
            /\ cpc' = "join"
            /\ joinStart' = elapsed
       ELSE /\ cpc' = "chkerr"
            /\ UNCHANGED <<result, result_queue, joinStart>>
    /\ UNCHANGED otherVars
    /\ UNCHANGED <<job, wpc, frame_idx, extracted_count, widx, progress_queue,
                   error_queue, pushed, attempt, stream, raised, elapsed>>

\* error = error_queue.get_nowait(); raise error / except queue.Empty: pass
CheckError ==
    /\ cpc = "chkerr"
    /\ IF error_queue # <<>>
       THEN /\ GeneratorRaises(Head(error_queue))
            /\ error_queue' = Tail(error_queue)
       ELSE /\ cpc' = "sleep"
            /\ UNCHANGED <<raised, error_queue>>
    /\ UNCHANGED otherVars
    /\ UNCHANGED <<job, wpc, frame_idx, extracted_count, widx, progress_queue,
                   result_queue, pushed, result, attempt, stream, elapsed,
                   joinStart>>

\* time.sleep(0.1) at the end of an iteration of the polling loop
PollSleep ==
    /\ cpc = "sleep"
    /\ TimePasses
    /\ cpc' = "loop"
    /\ UNCHANGED otherVars
    /\ UNCHANGED <<job, workerVars, result, attempt, stream, raised,
                   joinStart>>

\* analysis_thread.join(timeout=300.0), still blocked: time passes
JoinWait ==
    /\ cpc = "join"
    /\ is_alive
    /\ elapsed - joinStart < JOIN_TIMEOUT
    /\ elapsed + ClockStep <= MaxElapsed
    /\ elapsed' = elapsed + ClockStep
    /\ UNCHANGED otherVars
    /\ UNCHANGED <<job, workerVars, cpc, result, attempt, stream, raised,
                   joinStart>>

\* analysis_thread.join(timeout=300.0) returns: the thread has ended or the
\* timeout has expired; then "if result is None:" selects the retry loop.
JoinReturn ==
    /\ cpc = "join"
    /\ \/ ~is_alive
       \/ elapsed - joinStart >= JOIN_TIMEOUT
    /\ cpc' = IF result = NoResult THEN "retry" ELSE "final"
    /\ attempt' = 0
    /\ UNCHANGED otherVars
    /\ UNCHANGED <<job, workerVars, result, stream, raised, elapsed,
                   joinStart>>

\* One iteration of "for attempt in range(10)" and, when the loop runs out,
\* the closing "if result is None: raise".
RetryAttempt ==
    /\ cpc = "retry"
    /\ IF result_queue # <<>>
       THEN \* result = result_queue.get_nowait(); break
            /\ result' = Head(result_queue)
            /\ result_queue' = Tail(result_queue)
            /\ cpc' = "final"
            /\ UNCHANGED <<error_queue, raised, attempt, elapsed>>
       ELSE IF error_queue # <<>>
       THEN \* error = error_queue.get_nowait(); raise error
            /\ GeneratorRaises(Head(error_queue))
            /\ error_queue' = Tail(error_queue)
            /\ UNCHANGED <<result, result_queue, attempt, elapsed>>
       ELSE IF ~is_alive /\ attempt >= RETRY_ATTEMPTS - 1
       THEN \* Final attempt failed
            /\ GeneratorRaises("Analysis completed but no result returned. Thread finished but result queue is empty.")
            /\ UNCHANGED <<result, result_queue, error_queue, attempt,
                           elapsed>>
       ELSE \* time.sleep(0.2) if the thread is alive, else time.sleep(0.1)
            /\ TimePasses
            /\ attempt' = attempt + 1
            /\ IF attempt + 1 < RETRY_ATTEMPTS
               THEN /\ cpc' = "retry"
                    /\ raised' = raised
               ELSE GeneratorRaises("Analysis completed but no result returned")
            /\ UNCHANGED <<result, result_queue, error_queue>>
    /\ UNCHANGED otherVars
    /\ UNCHANGED <<job, wpc, frame_idx, extracted_count, widx, progress_queue,
                   pushed, stream, joinStart>>

\* analyze_video only: yield {'progress': 100, ...}
YieldComplete ==
    /\ cpc = "final"
    /\ job.endpoint = "video"
    /\ Yield(SEv("progress", PEv(100, "Analysis complete!", 0)))
    /\ cpc' = "sleep100"
    /\ UNCHANGED otherVars
    /\ UNCHANGED <<job, workerVars, result, attempt, raised, elapsed,
                   joinStart>>

\* analyze_video only: time.sleep(0.1) before the final result
FinalSleep ==
    /\ cpc = "sleep100"
    /\ TimePasses
    /\ cpc' = "result"
    /\ UNCHANGED otherVars
    /\ UNCHANGED <<job, workerVars, result, attempt, stream, raised,
                   joinStart>>

\* Variant of YieldResult: the final payload is yielded twice.
YieldResultTwice ==
    /\ cpc = IF job.endpoint = "video" THEN "result" ELSE "final"
    /\ stream' = stream \o <<result, result>>
    /\ cpc' = "done"
    /\ UNCHANGED otherVars
    /\ UNCHANGED <<job, workerVars, result, attempt, raised, elapsed,
                   joinStart>>

\* yield f"data: {json.dumps(result)}\n\n"; the generator returns
YieldResult ==
    /\ cpc = IF job.endpoint = "video" THEN "result" ELSE "final"
    /\ Yield(result)
    /\ cpc' = "done"
    /\ UNCHANGED otherVars
    /\ UNCHANGED <<job, workerVars, result, attempt, raised, elapsed,
                   joinStart>>

Consumer ==
    \/ YieldInitial
    \/ InitialSleep
    \/ StartThread
    \/ LoopCheck
    \/ DrainProgress
    \/ CheckResult
    \/ CheckError
    \/ PollSleep
    \/ JoinWait
    \/ JoinReturn
    \/ RetryAttempt
    \/ YieldComplete
    \/ FinalSleep
    \/ YieldResult

Next == Worker \/ Consumer

Spec == Init /\ [][Next]_vars

\* The threads are scheduled fairly: the worker thread keeps running, and the
\* HTTP server keeps iterating the generator.
FairSpec == Spec /\ WF_vars(Worker) /\ WF_vars(Consumer)

(* ------------------------- properties: helpers ------------------------- *)

\* The generator has finished: it returned or an exception left it.
ConsumerEnded == cpc \in {"done", "raised"}

\* A terminal event of the stream: a result payload or an error payload.
IsTerminal(e) == e.type \in {"result", "error"}

TerminalCount == Cardinality({i \in 1..Len(stream) : IsTerminal(stream[i])})

IsProgress(e) == e.type = "progress"

\* The progress events the consumer makes itself (5 and 100).
OwnSteps == {"Initialising video analysis...", "Analysis complete!"}

IsForwarded(e) == e.type = "progress" /\ e.step \notin OwnSteps

\* The worker's progress events that the consumer forwarded to the stream.
Forwarded == SelectSeq(stream, IsForwarded)

\* The progress events the worker put on progress_queue.
PushedProgress == SelectSeq(pushed, IsProgress)

OutcomeCount == Cardinality({i \in 1..Len(pushed) : IsTerminal(pushed[i])})

WorkerPutOutcome(t) == \E i \in 1..Len(pushed) : pushed[i].type = t

RECURSIVE IsSubseq(_, _)
IsSubseq(a, b) ==
    IF a = <<>> THEN TRUE
    ELSE IF b = <<>> THEN FALSE
    ELSE IF Head(a) = Head(b) THEN IsSubseq(Tail(a), Tail(b))
    ELSE IsSubseq(a, Tail(b))

(* ------------------------------ claims --------------------------------- *)

\* C1: for any job, once the generator has finished, the events it yielded
\* are a non-empty sequence whose last element is the one terminal event
\* (a result payload or an error payload).
C1_EventStream ==
    ConsumerEnded =>
        /\ Len(stream) > 0
        /\ IsTerminal(Last(stream))
        /\ TerminalCount = 1

\* C2: if the worker never puts an outcome, then once more than the maximum
\* job duration has elapsed the consumer has stopped, and the last event of
\* the stream is the one terminal failure (timeout).
C2_Timeout ==
    (wpc = "hung" /\ elapsed > JOIN_TIMEOUT) =>
        /\ ConsumerEnded
        /\ Len(stream) > 0
        /\ Last(stream).type = "error"
        /\ TerminalCount = 1

\* C3: no progress event is dropped: when the generator has finished, every
\* progress event the worker put on progress_queue has been yielded.
C3_NoProgressDropped ==
    ConsumerEnded => Forwarded = PushedProgress

\* C4: the percent values of the progress events of the stream never decrease.
C4_Monotone ==
    \A i, k \in 1..Len(stream) :
        (i < k /\ IsProgress(stream[i]) /\ IsProgress(stream[k]))
            => stream[i].progress <= stream[k].progress

\* C5: every progress event of the stream has a percent in [0, 100].
C5_Range ==
    \A i \in 1..Len(stream) :
        IsProgress(stream[i]) =>
            (0 <= stream[i].progress /\ stream[i].progress <= 100)

\* C6: at most one terminal event is yielded and nothing is yielded after it:
\* a terminal event of the stream is its last element, and the generator has
\* returned.
C6_SingleTerminal ==
    /\ TerminalCount <= 1
    /\ \A i \in 1..Len(stream) :
          IsTerminal(stream[i]) => (i = Len(stream) /\ cpc = "done")

C6_Witness ==
    /\ cpc = "done"
    /\ Len(stream) >= 3
    /\ Last(stream).type = "result"
    /\ TerminalCount = 1

\* C7: when the worker failed with an exception, the finished stream holds
\* exactly one failure event, which carries the error's message, and no
\* result payload.
C7_FailureEvent ==
    (WorkerPutOutcome("error") /\ ConsumerEnded) =>
        /\ Cardinality({i \in 1..Len(stream) : stream[i].type = "error"}) = 1
        /\ Last(stream).type = "error"
        /\ Last(stream).step = Last(pushed).step
        /\ \A i \in 1..Len(stream) : stream[i].type # "result"

\* C8: under fair scheduling, once the worker has put a result on
\* result_queue, the generator eventually returns with that result as the
\* last event of the stream.
C8_ResultDelivered ==
    (WorkerPutOutcome("result"))
        ~> (cpc = "done" /\ Len(stream) > 0 /\ Last(stream) = Last(pushed))

C8_Witness ==
    /\ cpc = "done"
    /\ wpc = "done"
    /\ WorkerPutOutcome("result")
    /\ Last(stream) = Last(pushed)
    /\ job.endpoint = "image"

\* C9: the worker puts progress events and then one outcome as its last put:
\* never two outcomes, never a progress event after the outcome, and a worker
\* that has ended has put exactly one outcome.
C9_OneOutcome ==
    /\ OutcomeCount <= 1
    /\ \A i \in 1..Len(pushed) : IsTerminal(pushed[i]) => i = Len(pushed)
    /\ wpc = "done" => OutcomeCount = 1
    /\ Len(result_queue) + Len(error_queue) <= 1

C9_Witness ==
    /\ wpc = "done"
    /\ Len(pushed) >= 2
    /\ Last(pushed).type = "error"
    /\ OutcomeCount = 1

\* C10: the progress events forwarded to the stream are, in the same order
\* and each at most once, a subsequence of the events the worker put on
\* progress_queue.
C10_ArrivalOrder ==
    /\ IsSubseq(Forwarded, PushedProgress)
    /\ \A i, k \in 1..Len(Forwarded) : i # k => Forwarded[i] # Forwarded[k]

C10_Witness ==
    /\ Len(Forwarded) >= 3
    /\ Len(progress_queue) >= 2

\* The worker thread is at a statement that leads to a put on one of the
\* three queues.
WorkerRunning == wpc \in {"begin", "frames", "tail", "image", "put"}

\* C11: the worker never blocks on the consumer: whenever the worker thread is
\* running, its next step (a put on progress_queue, result_queue or
\* error_queue included) can be taken, however many events are waiting in
\* progress_queue and wherever the consumer is.
C11_WorkerNeverBlocks ==
    WorkerRunning => ENABLED Worker

C11_Witness ==
    /\ wpc = "tail"
    /\ Len(progress_queue) >= 4
    /\ cpc = "loop"
    /\ ENABLED WorkerTail

\* C12: an unopenable video is detected and reported before any worker
\* starts: the analysis thread of such a job is never started.
C12_InputErrorBeforeWorker ==
    (job.endpoint = "video" /\ job.analyzer /\ ~job.canOpen) => wpc = "idle"

\* The worker failed with a division by zero while sampling.
SamplingError ==
    \E i \in 1..Len(pushed) :
        /\ pushed[i].type = "error"
        /\ pushed[i].step \in {"integer modulo by zero",
                               "float division by zero"}

\* C19: for every video that was opened the sampling interval is at least 1,
\* it is 1 when the requested rate is <= 0, the source fps is 0 or the
\* requested rate exceeds the source fps, and sampling raises no error.
C19_SamplerInterval ==
    (job.endpoint = "video" /\ job.analyzer /\ job.canOpen
        /\ wpc \notin {"idle", "begin"}) =>
        /\ ~SamplingError
        /\ job.extract_fps # 0 =>
              /\ frame_interval(job) >= 1
              /\ (job.extract_fps < 0 \/ job.fps = 0
                    \/ job.extract_fps > job.fps) => frame_interval(job) = 1

(* --------------- analysis.py: the quality score (pure) ----------------- *)

\* Average brightness, average contrast (standard deviation of the luma) and
\* dynamic range that analyze_video can compute from 8-bit frames.
BrightnessValues == {0, 1, 100, 128, 254, 255}
ContrastValues == {0, 1, 50, 99, 100, 101, 127}
DynamicRangeValues == {0, 1, 128, 255}

\* min(1.0, max(0.0, x / full)), in units of 1/full
Clamp01(x, full) == IF x < 0 THEN 0 ELSE IF x > full THEN full ELSE x

\* Variant of Clamp01: the upper limit min(1.0, ...) is missing.
ContrastScoreUnclamped(c) == IF c < 0 THEN 0 ELSE c

\* contrast_score = min(1.0, max(0.0, avg_contrast / 100.0)), in units of 1/100
ContrastScore(c) == Clamp01(c, 100)

\* quality_score = brightness_score * 0.4 + contrast_score * 0.4
\*                 + dynamic_range_score * 0.2
\* with brightness_score in units of 1/255, contrast_score in units of 1/100
\* and dynamic_range_score in units of 1/255: the result is in units of
\* 1/25500 (0.4/255 = 40/25500, 0.4/100 = 102/25500, 0.2/255 = 20/25500).
QualityScore(b, c, d) ==
    40 * Clamp01(b, 255) + 102 * ContrastScore(c) + 20 * Clamp01(d, 255)

\* The value 1.0 of quality_score, in units of 1/25500.
QualityOne == 40 * 255 + 102 * 100 + 20 * 255

QualityInit ==
    /\ qpc = "input"
    /\ avg_brightness \in BrightnessValues
    /\ avg_contrast \in ContrastValues
    /\ dynamic_range \in DynamicRangeValues
    /\ quality_score = 0

\* analyze_video, "Calculate quality score (0-1)"
ComputeQuality ==
    /\ qpc = "input"
    /\ quality_score' =
         QualityScore(avg_brightness, avg_contrast, dynamic_range)
    /\ qpc' = "scored"
    /\ UNCHANGED <<avg_brightness, avg_contrast, dynamic_range>>
    /\ UNCHANGED notQualityVars

QualityNext == ComputeQuality

QualitySpecInit ==
    /\ QualityInit
    /\ StreamIdle
    /\ AggIdle
    /\ SubmitIdle
    /\ RegistryIdle
    /\ WeatherIdle

QualitySpec == QualitySpecInit /\ [][QualityNext]_vars

\* C20: the quality score lies in [0, 1] for all inputs, is 0 at
\* brightness = contrast = dynamicRange = 0 and is 1 at brightness = 255,
\* contrast = 100, dynamicRange = 255.
C20_QualityScoreRange ==
    qpc = "scored" =>
        /\ 0 <= quality_score /\ quality_score <= QualityOne
        /\ (avg_brightness = 0 /\ avg_contrast = 0 /\ dynamic_range = 0)
              => quality_score = 0
        /\ (avg_brightness = 255 /\ avg_contrast = 100 /\ dynamic_range = 255)
              => quality_score = QualityOne

C20_Witness ==
    /\ qpc = "scored"
    /\ avg_brightness = 255
    /\ avg_contrast > 100
    /\ dynamic_range = 255
    /\ quality_score = QualityOne

(* ------------- analysis.py: the weather label of an image -------------- *)

\* The weather classes.
WeatherClasses == {"Clear", "Cloudy", "Rainy", "Foggy", "Snowy"}

\* Texts are sequences of characters.
\* str.lower() of one character
LowerChar(c) ==
    LET UpperCase ==
            <<"A", "B", "C", "D", "E", "F", "G", "H", "I", "J", "K", "L", "M",
              "N", "O", "P", "Q", "R", "S", "T", "U", "V", "W", "X", "Y", "Z">>
        LowerCase ==
            <<"a", "b", "c", "d", "e", "f", "g", "h", "i", "j", "k", "l", "m",
              "n", "o", "p", "q", "r", "s", "t", "u", "v", "w", "x", "y", "z">>
    IN IF \E i \in 1..Len(UpperCase) : UpperCase[i] = c
       THEN LowerCase[CHOOSE i \in 1..Len(UpperCase) : UpperCase[i] = c]
       ELSE c

\* label.lower()
ToLower(text) == [i \in 1..Len(text) |-> LowerChar(text[i])]

\* pattern in text
Contains(pattern, text) ==
    \E i \in 1..(Len(text) - Len(pattern) + 1) :
        SubSeq(text, i, i + Len(pattern) - 1) = pattern

\* The substrings the label mapping looks for.
Pattern ==
    [ clear |-> <<"c", "l", "e", "a", "r">>,
      sunny |-> <<"s", "u", "n", "n", "y">>,
      day |-> <<"d", "a", "y">>,
      cloud |-> <<"c", "l", "o", "u", "d">>,
      overcast |-> <<"o", "v", "e", "r", "c", "a", "s", "t">>,
      rain |-> <<"r", "a", "i", "n">>,
      wet |-> <<"w", "e", "t">>,
      water |-> <<"w", "a", "t", "e", "r">>,
      fog |-> <<"f", "o", "g">>,
      mist |-> <<"m", "i", "s", "t">>,
      snow |-> <<"s", "n", "o", "w">> ]

\* Variant of MatchLabel: the rule for cloud/overcast is tried before the rule
\* for clear/sunny/day.
MatchLabelCloudFirst(label_lower) ==
    IF \/ Contains(Pattern.cloud, label_lower)
       \/ Contains(Pattern.overcast, label_lower)
    THEN "Cloudy"
    ELSE IF \/ Contains(Pattern.clear, label_lower)
            \/ Contains(Pattern.sunny, label_lower)
            \/ Contains(Pattern.day, label_lower)
    THEN "Clear"
    ELSE IF \/ Contains(Pattern.rain, label_lower)
            \/ Contains(Pattern.wet, label_lower)
            \/ Contains(Pattern.water, label_lower)
    THEN "Rainy"
    ELSE IF \/ Contains(Pattern.fog, label_lower)
            \/ Contains(Pattern.mist, label_lower)
    THEN "Foggy"
    ELSE IF Contains(Pattern.snow, label_lower)
    THEN "Snowy"
    ELSE "unexpected"

\* The if/elif chain over label_lower of _analyze_weather; "unexpected" stands
\* for its else branch.
MatchLabel(label_lower) ==
    IF \/ Contains(Pattern.clear, label_lower)
       \/ Contains(Pattern.sunny, label_lower)
       \/ Contains(Pattern.day, label_lower)
    THEN "Clear"
    ELSE IF \/ Contains(Pattern.cloud, label_lower)
            \/ Contains(Pattern.overcast, label_lower)
    THEN "Cloudy"
    ELSE IF \/ Contains(Pattern.rain, label_lower)
            \/ Contains(Pattern.wet, label_lower)
            \/ Contains(Pattern.water, label_lower)
    THEN "Rainy"
    ELSE IF \/ Contains(Pattern.fog, label_lower)
            \/ Contains(Pattern.mist, label_lower)
    THEN "Foggy"
    ELSE IF Contains(Pattern.snow, label_lower)
    THEN "Snowy"
    ELSE "unexpected"

\* The texts the weather model can return as id2label[predicted_class].
RawLabels ==
    { <<"S", "u", "n", "n", "y">>,
      <<"c", "l", "o", "u", "d", "y", " ", "d", "a", "y">>,
      <<"O", "v", "e", "r", "c", "a", "s", "t">>,
      <<"W", "E", "T", " ", "r", "o", "a", "d">>,
      <<"r", "a", "i", "n", " ", "c", "l", "o", "u", "d">>,
      <<"m", "i", "s", "t">>,
      <<"S", "n", "o", "w">>,
      <<"c", "a", "r", " ", "m", "i", "r", "r", "o", "r">> }

\* The outcomes of the weather model: not loaded, the call raises, or a label.
ModelOutcomes ==
    { [model |-> "None", label |-> <<>>],
      [model |-> "raises", label |-> <<>>] }
    \cup { [model |-> "loaded", label |-> l] : l \in RawLabels }

\* A pixel of the image: the red and the green channel, 8 bits each.
Pixel(r, g) == [r |-> r, g |-> g]

\* The pixels of the sky region (the top 30% of the image).
SkyRegions ==
    { <<Pixel(100, 100), Pixel(100, 100)>>,
      <<Pixel(100, 105), Pixel(100, 100)>>,
      <<Pixel(105, 100), Pixel(100, 130)>>,
      <<Pixel(100, 105), Pixel(100, 110)>>,
      <<Pixel(10, 250), Pixel(100, 130)>>,
      <<Pixel(200, 100), Pixel(100, 200)>> }

\* The images: what _estimate_weather_from_image measures on them. brightness
\* and sky_brightness are means of 8-bit values, contrast is a standard
\* deviation; edge_density, sky_blue_ratio and reflection_ratio are in
\* hundredths.
Images ==
    [sky_region : SkyRegions, brightness : {50, 90, 150, 200, 230},
     contrast : {10, 45, 70}, edge_density : {2, 6, 20},
     sky_brightness : {100, 200}, sky_blue_ratio : {10, 50},
     reflection_ratio : {5, 30}]

\* sky_region[:, :, 0] - sky_region[:, :, 1] on uint8 arrays: the difference
\* modulo 2^8; np.abs of an unsigned array leaves it as it is.
AbsDiffU8(r, g) == (r - g) % 256

\* np.mean(np.abs(sky_region[:, :, 0] - sky_region[:, :, 1]) < 20), in
\* hundredths
SkyGrayRatio(sky_region) ==
    (100 * Cardinality({i \in 1..Len(sky_region) :
                AbsDiffU8(sky_region[i].r, sky_region[i].g) < 20}))
        \div Len(sky_region)

\* Variant of EstimateWeather: the rule for Rainy is tried before the rule for
\* Foggy.
EstimateWeatherRainyFirst(im, gray) ==
    IF im.brightness < 80 /\ im.edge_density < 8 /\ im.reflection_ratio > 15
    THEN "Rainy"
    ELSE IF im.contrast < 20 /\ im.edge_density < 5
    THEN "Foggy"
    ELSE IF im.brightness > 220 /\ im.contrast > 60 /\ im.edge_density > 15
    THEN "Snowy"
    ELSE IF /\ im.sky_brightness > 180 /\ im.sky_blue_ratio > 25
            /\ im.edge_density > 10 /\ im.contrast > 40
    THEN "Clear"
    ELSE IF /\ gray > 40
            /\ 100 < im.brightness /\ im.brightness < 180
            /\ 30 < im.contrast /\ im.contrast < 60
    THEN "Cloudy"
    ELSE IF im.brightness < 100 THEN "Rainy"
    ELSE IF im.brightness > 180 THEN "Clear"
    ELSE "Cloudy"

\* The decision chain of _estimate_weather_from_image (ratios in hundredths).
EstimateWeather(im, gray) ==
    IF im.contrast < 20 /\ im.edge_density < 5
    THEN "Foggy"
    ELSE IF im.brightness > 220 /\ im.contrast > 60 /\ im.edge_density > 15
    THEN "Snowy"
    ELSE IF im.brightness < 80 /\ im.edge_density < 8 /\ im.reflection_ratio > 15
    THEN "Rainy"
    ELSE IF /\ im.sky_brightness > 180 /\ im.sky_blue_ratio > 25
            /\ im.edge_density > 10 /\ im.contrast > 40
    THEN "Clear"
    ELSE IF /\ gray > 40
            /\ 100 < im.brightness /\ im.brightness < 180
            /\ 30 < im.contrast /\ im.contrast < 60
    THEN "Cloudy"
    ELSE IF im.brightness < 100 THEN "Rainy"
    ELSE IF im.brightness > 180 THEN "Clear"
    ELSE "Cloudy"

WeatherInit ==
    /\ wxpc = "start"
    /\ wx_input \in [outcome : ModelOutcomes, image : Images]
    /\ sky_gray_ratio = 0
    /\ weather_out = ""

\* _analyze_weather: the model's label is mapped to a class; without a model,
\* when the call raises and in the else branch the image is analysed.
AnalyzeWeather ==
    /\ wxpc = "start"
    /\ IF /\ wx_input.outcome.model = "loaded"
          /\ MatchLabel(ToLower(wx_input.outcome.label)) # "unexpected"
       THEN /\ weather_out' = MatchLabel(ToLower(wx_input.outcome.label))
            /\ wxpc' = "done"
       ELSE /\ wxpc' = "estimate"
            /\ UNCHANGED weather_out
    /\ UNCHANGED <<wx_input, sky_gray_ratio>>
    /\ UNCHANGED notWeatherVars

\* _estimate_weather_from_image: the measurements on the sky region.
MeasureSky ==
    /\ wxpc = "estimate"
    /\ sky_gray_ratio' = SkyGrayRatio(wx_input.image.sky_region)
    /\ wxpc' = "decide"
    /\ UNCHANGED <<wx_input, weather_out>>
    /\ UNCHANGED notWeatherVars

\* _estimate_weather_from_image: the decision chain.
DecideWeather ==
    /\ wxpc = "decide"
    /\ weather_out' = EstimateWeather(wx_input.image, sky_gray_ratio)
    /\ wxpc' = "done"
    /\ UNCHANGED <<wx_input, sky_gray_ratio>>
    /\ UNCHANGED notWeatherVars

WeatherNext ==
    \/ AnalyzeWeather
    \/ MeasureSky
    \/ DecideWeather

WeatherSpecInit ==
    /\ WeatherInit
    /\ StreamIdle
    /\ QualityIdle
    /\ AggIdle
    /\ SubmitIdle
    /\ RegistryIdle

WeatherSpec == WeatherSpecInit /\ [][WeatherNext]_vars

\* The substring rules of the label mapping, in their order.
LabelRules ==
    << [patterns |-> {Pattern.clear, Pattern.sunny, Pattern.day}, class |-> "Clear"],
       [patterns |-> {Pattern.cloud, Pattern.overcast}, class |-> "Cloudy"],
       [patterns |-> {Pattern.rain, Pattern.wet, Pattern.water}, class |-> "Rainy"],
       [patterns |-> {Pattern.fog, Pattern.mist}, class |-> "Foggy"],
       [patterns |-> {Pattern.snow}, class |-> "Snowy"] >>

RuleMatches(k, text) ==
    \E pat \in LabelRules[k].patterns : Contains(pat, ToLower(text))

\* The model returned a label that some rule matches.
LabelRecognised ==
    /\ wx_input.outcome.model = "loaded"
    /\ \E k \in 1..Len(LabelRules) : RuleMatches(k, wx_input.outcome.label)

\* C22: _analyze_weather returns one of the five weather classes: the class of
\* the first substring rule that matches the model's label, and the result of
\* the image heuristic when no rule matches, when the model call raises and
\* when no weather model is loaded.
C22_WeatherClosedSet ==
    wxpc = "done" =>
        /\ weather_out \in WeatherClasses
        /\ \A k \in 1..Len(LabelRules) :
              ( /\ wx_input.outcome.model = "loaded"
                /\ RuleMatches(k, wx_input.outcome.label)
                /\ \A j \in 1..(k - 1) : ~RuleMatches(j, wx_input.outcome.label) )
              => weather_out = LabelRules[k].class
        /\ ~LabelRecognised =>
              weather_out = EstimateWeather(wx_input.image,
                                SkyGrayRatio(wx_input.image.sky_region))

C22_Witness ==
    /\ wxpc = "done"
    /\ wx_input.outcome.model = "loaded"
    /\ RuleMatches(1, wx_input.outcome.label)
    /\ RuleMatches(2, wx_input.outcome.label)
    /\ weather_out = "Clear"

\* The five rules of the heuristic as conditions on the measurements.
HeuristicRule(k, im, gray) ==
    CASE k = 1 -> im.contrast < 20 /\ im.edge_density < 5
      [] k = 2 -> im.brightness > 220 /\ im.contrast > 60 /\ im.edge_density > 15
      [] k = 3 -> im.brightness < 80 /\ im.edge_density < 8
                    /\ im.reflection_ratio > 15
      [] k = 4 -> im.sky_brightness > 180 /\ im.sky_blue_ratio > 25
                    /\ im.edge_density > 10 /\ im.contrast > 40
      [] k = 5 -> gray > 40 /\ im.brightness > 100 /\ im.brightness < 180
                    /\ im.contrast > 30 /\ im.contrast < 60

HeuristicClass == <<"Foggy", "Snowy", "Rainy", "Clear", "Cloudy">>

\* The heuristic has decided the label of the image.
HeuristicDone == wxpc = "done" /\ ~LabelRecognised

\* C23: in the heuristic the first matching rule wins: contrast < 20 and
\* edge density < 0.05 give Foggy whatever the other measurements are, and
\* when none of the five rules matches the label is Rainy for brightness < 100,
\* Clear for brightness > 180 and Cloudy otherwise.
C23_FirstRuleWins ==
    HeuristicDone =>
        LET im == wx_input.image
            gray == sky_gray_ratio
        IN /\ (im.contrast < 20 /\ im.edge_density < 5) => weather_out = "Foggy"
           /\ \A k \in 1..5 :
                 ( /\ HeuristicRule(k, im, gray)
                   /\ \A j \in 1..(k - 1) : ~HeuristicRule(j, im, gray) )
                 => weather_out = HeuristicClass[k]
           /\ (\A k \in 1..5 : ~HeuristicRule(k, im, gray)) =>
                 weather_out = IF im.brightness < 100 THEN "Rainy"
                               ELSE IF im.brightness > 180 THEN "Clear"
                               ELSE "Cloudy"

C23_Witness ==
    /\ HeuristicDone
    /\ HeuristicRule(1, wx_input.image, sky_gray_ratio)
    /\ HeuristicRule(3, wx_input.image, sky_gray_ratio)
    /\ weather_out = "Foggy"

\* The fraction, in hundredths, of the pixels whose red and green channels
\* differ by less than 20 in absolute value.
GrayFraction(sky_region) ==
    (100 * Cardinality({i \in 1..Len(sky_region) :
                Abs(sky_region[i].r - sky_region[i].g) < 20}))
        \div Len(sky_region)

\* C30: the sky gray ratio is the fraction of the sky pixels whose red and
\* green channels differ by less than 20 in absolute value, also for pixels
\* whose green value is above the red value.
C30_SkyGrayRatio ==
    wxpc \in {"decide", "done"} /\ ~LabelRecognised =>
        sky_gray_ratio = GrayFraction(wx_input.image.sky_region)

(* ------------- analysis.py: per-frame results and aggregation ---------- *)

\* Largest number of sampled frames of a video.
MaxFrames == 5

\* The labels counted as vehicles and as humans.
VehicleLabels == {"car", "truck", "bus", "motorcycle", "bicycle"}
HumanLabels == {"person"}

\* A detection: its label and its score in hundredths.
Det(label, score) == [label |-> label, score |-> score]

\* The sampled frames: what the detection model finds on the frame and
\* whether its call raises, what the weather model returns and whether its
\* call raises, the label the image heuristic gives, and the brightness and
\* contrast of the frame.
FrameResults ==
    { [detections |-> <<>>, detector_raises |-> FALSE,
       weather_label |-> <<"S", "u", "n", "n", "y">>, weather_raises |-> FALSE,
       heuristic |-> "Clear", brightness |-> 200, contrast |-> 45],
      [detections |-> <<Det("person", 90), Det("car", 80)>>,
       detector_raises |-> FALSE,
       weather_label |-> <<"W", "E", "T", " ", "r", "o", "a", "d">>,
       weather_raises |-> FALSE,
       heuristic |-> "Rainy", brightness |-> 90, contrast |-> 45],
      [detections |-> <<Det("car", 90), Det("truck", 70), Det("bus", 50),
                        Det("dog", 40)>>,
       detector_raises |-> FALSE,
       weather_label |-> <<"c", "a", "r", " ", "m", "i", "r", "r", "o", "r">>,
       weather_raises |-> FALSE,
       heuristic |-> "Clear", brightness |-> 150, contrast |-> 70],
      [detections |-> <<Det("car", 90), Det("truck", 80), Det("bus", 70),
                        Det("motorcycle", 60), Det("person", 50)>>,
       detector_raises |-> FALSE,
       weather_label |-> <<"O", "v", "e", "r", "c", "a", "s", "t">>,
       weather_raises |-> FALSE,
       heuristic |-> "Cloudy", brightness |-> 150, contrast |-> 10],
      [detections |-> <<Det("car", 95), Det("truck", 85), Det("bus", 75),
                        Det("motorcycle", 65), Det("bicycle", 55)>>,
       detector_raises |-> FALSE,
       weather_label |-> <<"W", "E", "T", " ", "r", "o", "a", "d">>,
       weather_raises |-> FALSE,
       heuristic |-> "Rainy", brightness |-> 50, contrast |-> 45],
      [detections |-> <<Det("car", 90)>>, detector_raises |-> TRUE,
       weather_label |-> <<"S", "n", "o", "w">>, weather_raises |-> TRUE,
       heuristic |-> "Clear", brightness |-> 230, contrast |-> 120] }

\* The analyzers: self.detection_model and self.weather_model after
\* _load_models, "None" when a model was not loaded.
Analyzers ==
    { [detection_model |-> "loaded", weather_model |-> "loaded"],
      [detection_model |-> "None", weather_model |-> "None"] }

\* settings['fps'] of the aggregated videos.
AggRateValues == {0, 1, 4}

\* The inputs of analyze_video and analyze_image: the source frame rate, the
\* requested rate, whether the video has no readable frame, and the analyzer.
VideoInputs ==
    { [media |-> "video", fps |-> 2, extract_fps |-> r, empty |-> e,
       analyzer |-> a] :
          r \in AggRateValues, e \in BOOLEAN, a \in Analyzers }
    \cup { [media |-> "image", fps |-> 0, extract_fps |-> 1, empty |-> FALSE,
            analyzer |-> a] : a \in Analyzers }

\* list.count(x)
Count(seq, x) == Cardinality({i \in 1..Len(seq) : seq[i] = x})

\* The elements of a list.
Elements(seq) == {seq[i] : i \in 1..Len(seq)}

RECURSIVE SumValues(_, _)
\* sum(d[k] for k in keys)
SumValues(d, keys) ==
    IF keys = {} THEN 0
    ELSE LET k == CHOOSE x \in keys : TRUE
         IN d[k] + SumValues(d, keys \ {k})

\* Variant of DictIncrement: the count is set to 1 instead of incremented.
DictIncrementReset(d, k) ==
    [x \in DOMAIN d \cup {k} |-> IF x = k THEN 1 ELSE d[x]]

\* d[k] = d.get(k, 0) + 1
DictIncrement(d, k) ==
    [x \in DOMAIN d \cup {k} |->
        IF x = k THEN (IF k \in DOMAIN d THEN d[k] ELSE 0) + 1 ELSE d[x]]

RECURSIVE Tally(_, _)
\* for x in seq: d[x] = d.get(x, 0) + 1
Tally(seq, d) ==
    IF seq = <<>> THEN d
    ELSE Tally(Tail(seq), DictIncrement(d, Head(seq)))

\* Variant of CongestionLevel: the limit of 'medium' is "vc < 3".
CongestionLevelOffByOne(vc) ==
    IF vc = 0 THEN "low" ELSE IF vc < 3 THEN "medium" ELSE "high"

\* if vc == 0: 'low' / elif vc <= 3: 'medium' / else: 'high'
CongestionLevel(vc) ==
    IF vc = 0 THEN "low" ELSE IF vc <= 3 THEN "medium" ELSE "high"

\* The labels max(set(weather_conditions), key=weather_conditions.count) can
\* return: max() returns the first element of the largest count in the
\* iteration order of the set, and the iteration order of a set of strings
\* depends on the hash seed of the process.
MostCommon(seq) ==
    {w \in Elements(seq) :
        \A u \in Elements(seq) : Count(seq, u) <= Count(seq, w)}

\* Means, medians and the confidences are kept in units of 1/StatScale (the
\* confidences in units of 1/StatScale of a hundredth), which makes every
\* quotient by a list length up to 6 exact.
StatScale == 60

RECURSIVE Sum(_)
\* sum(seq)
Sum(seq) == IF seq = <<>> THEN 0 ELSE Head(seq) + Sum(Tail(seq))

\* The squares of the elements.
Squares(seq) == [i \in 1..Len(seq) |-> seq[i] * seq[i]]

\* np.mean(seq) of a non-empty list, in units of 1/StatScale
Mean(seq) == (Sum(seq) * StatScale) \div Len(seq)

\* The k-th smallest element of a non-empty list.
Kth(seq, k) ==
    CHOOSE x \in Elements(seq) :
        /\ Cardinality({i \in 1..Len(seq) : seq[i] < x}) < k
        /\ Cardinality({i \in 1..Len(seq) : seq[i] <= x}) >= k

\* np.median(seq) of a non-empty list, in units of 1/StatScale
Median(seq) ==
    IF Len(seq) % 2 = 1
    THEN Kth(seq, (Len(seq) + 1) \div 2) * StatScale
    ELSE ((Kth(seq, Len(seq) \div 2) + Kth(seq, Len(seq) \div 2 + 1))
            * StatScale) \div 2

\* np.min(seq) and np.max(seq) of a non-empty list
MinOf(seq) == CHOOSE x \in Elements(seq) : \A y \in Elements(seq) : x <= y
MaxOf(seq) == CHOOSE x \in Elements(seq) : \A y \in Elements(seq) : x >= y

\* The square of np.std(seq) of a non-empty list, in units of 1/StatScale^2
Variance(seq) ==
    ((Len(seq) * Sum(Squares(seq)) - Sum(seq) * Sum(seq))
        * StatScale * StatScale) \div (Len(seq) * Len(seq))

\* vehicle_stats and human_stats: each entry is 0 for an empty list. The
\* standard deviation is kept as its square.
Stats(seq) ==
    [median |-> IF seq # <<>> THEN Median(seq) ELSE 0,
     mean |-> IF seq # <<>> THEN Mean(seq) ELSE 0,
     min |-> IF seq # <<>> THEN MinOf(seq) ELSE 0,
     max |-> IF seq # <<>> THEN MaxOf(seq) ELSE 0,
     std_dev_squared |-> IF seq # <<>> THEN Variance(seq) ELSE 0]

\* quality_score of analyze_video from avg_brightness and avg_contrast in
\* units of 1/StatScale and dynamic_range: in units of 1/(25500 * StatScale).
VideoQualityScore(b, c, d) ==
    40 * Clamp01(b, 255 * StatScale) + 102 * Clamp01(c, 100 * StatScale)
        + 20 * Clamp01(d * StatScale, 255 * StatScale)

\* Variant of DetectObjects: an exception of the detection call is not
\* absorbed into an empty detection list.
DetectObjectsUnguarded(an, f) ==
    IF an.detection_model = "None" THEN <<>> ELSE f.detections

\* _detect_objects: no detections without a detection model and when the
\* detection call raises.
DetectObjects(an, f) ==
    IF an.detection_model = "None" THEN <<>>
    ELSE IF f.detector_raises THEN <<>>
    ELSE f.detections

\* _analyze_weather for a frame whose image heuristic gives f.heuristic.
FrameWeather(an, f) ==
    IF /\ an.weather_model # "None"
       /\ ~f.weather_raises
       /\ MatchLabel(ToLower(f.weather_label)) # "unexpected"
    THEN MatchLabel(ToLower(f.weather_label))
    ELSE f.heuristic

\* sum(1 for d in detections if d['label'] in [...])
CountLabels(detections, labels) ==
    Cardinality({i \in 1..Len(detections) : detections[i].label \in labels})

\* np.mean([d['score'] for d in detections]) if detections else 0.0, in
\* units of 1/StatScale of a hundredth
MeanScore(detections) ==
    IF detections # <<>>
    THEN Mean([i \in 1..Len(detections) |-> detections[i].score])
    ELSE 0

\* The charts of _generate_individual_charts in the order they are rendered.
ChartOrder == <<"weather", "congestion", "vehicles", "humans", "quality">>

\* The charts whose rendering can raise in the model.
ChartFailures == {"none", "vehicles"}

\* chart_images: no chart without data; otherwise the charts rendered before
\* the one that raises, because _generate_individual_charts catches the
\* exception and returns the charts it has stored so far.
ChartImages(failing) ==
    IF Len(vehicle_counts) = 0 /\ Len(human_counts) = 0 THEN {}
    ELSE {ChartOrder[i] : i \in
            {k \in 1..Len(ChartOrder) :
                \A m \in 1..k : ChartOrder[m] # failing}}

AggInit ==
    /\ apc = "open"
    /\ video \in VideoInputs
    /\ frame_inputs = <<>>
    /\ agg_frame_idx = 0
    /\ agg_extracted_count = 0
    /\ vehicle_counts = <<>>
    /\ human_counts = <<>>
    /\ confidences = <<>>
    /\ weather_conditions = <<>>
    /\ brightness_values = <<>>
    /\ contrast_values = <<>>
    /\ frame_images = <<>>
    /\ chart_failure = "none"
    /\ agg_raised = ""
    /\ analysis = NoAnalysis
    /\ image_result = <<>>

\* analyze_video up to the frame loop: the sampling interval is computed.
OpenVideo ==
    /\ apc = "open"
    /\ video.media = "video"
    /\ IF video.fps > 0 /\ video.extract_fps = 0
       THEN /\ apc' = "raised"
            /\ agg_raised' = "float division by zero"
       ELSE /\ apc' = "loop"
            /\ UNCHANGED agg_raised
    /\ UNCHANGED <<video, frame_inputs, agg_frame_idx, agg_extracted_count,
                   frameLists, chart_failure, analysis, image_result>>
    /\ UNCHANGED notAggVars

\* A frame is read and "frame_idx % frame_interval" divides by zero.
SamplingRaises ==
    /\ apc = "loop"
    /\ ~video.empty
    /\ frame_interval(video) = 0
    /\ apc' = "raised"
    /\ agg_raised' = "integer modulo by zero"
    /\ UNCHANGED <<video, frame_inputs, agg_frame_idx, agg_extracted_count,
                   frameLists, chart_failure, analysis, image_result>>
    /\ UNCHANGED notAggVars

\* One iteration of the frame loop for a frame between two sampled frames.
SkipFrame ==
    /\ apc = "loop"
    /\ ~video.empty
    /\ frame_interval(video) # 0
    /\ agg_frame_idx % frame_interval(video) # 0
    /\ agg_frame_idx' = agg_frame_idx + 1
    /\ UNCHANGED <<apc, video, frame_inputs, agg_extracted_count, frameLists,
                   chart_failure, agg_raised, analysis, image_result>>
    /\ UNCHANGED notAggVars

\* Variant of AnalyzeFrame: the confidence of a frame is appended only when
\* the frame has detections.
AnalyzeFrameSkipsConfidence ==
    /\ apc = "loop"
    /\ ~video.empty
    /\ frame_interval(video) # 0
    /\ agg_frame_idx % frame_interval(video) = 0
    /\ Len(vehicle_counts) < MaxFrames
    /\ \E f \in FrameResults :
          LET detections == DetectObjects(video.analyzer, f)
          IN /\ frame_inputs' = Append(frame_inputs, f)
             /\ vehicle_counts' =
                   Append(vehicle_counts, CountLabels(detections, VehicleLabels))
             /\ human_counts' =
                   Append(human_counts, CountLabels(detections, HumanLabels))
             /\ confidences' =
                   IF detections # <<>>
                   THEN Append(confidences, MeanScore(detections))
                   ELSE confidences
             /\ weather_conditions' =
                   Append(weather_conditions, FrameWeather(video.analyzer, f))
             /\ brightness_values' = Append(brightness_values, f.brightness)
             /\ contrast_values' = Append(contrast_values, f.contrast)
    /\ frame_images' = Append(frame_images, agg_extracted_count)
    /\ agg_extracted_count' = agg_extracted_count + 1
    /\ agg_frame_idx' = agg_frame_idx + 1
    /\ UNCHANGED <<apc, video, chart_failure, agg_raised, analysis,
                   image_result>>
    /\ UNCHANGED notAggVars

\* One iteration of the frame loop that analyses a sampled frame.
AnalyzeFrame ==
    /\ apc = "loop"
    /\ ~video.empty
    /\ frame_interval(video) # 0
    /\ agg_frame_idx % frame_interval(video) = 0
    /\ Len(vehicle_counts) < MaxFrames
    /\ \E f \in FrameResults :
          LET detections == DetectObjects(video.analyzer, f)
          IN /\ frame_inputs' = Append(frame_inputs, f)
             /\ vehicle_counts' =
                   Append(vehicle_counts, CountLabels(detections, VehicleLabels))
             /\ human_counts' =
                   Append(human_counts, CountLabels(detections, HumanLabels))
             /\ confidences' = Append(confidences, MeanScore(detections))
             /\ weather_conditions' =
                   Append(weather_conditions, FrameWeather(video.analyzer, f))
             /\ brightness_values' = Append(brightness_values, f.brightness)
             /\ contrast_values' = Append(contrast_values, f.contrast)
    /\ frame_images' = Append(frame_images, agg_extracted_count)
    /\ agg_extracted_count' = agg_extracted_count + 1
    /\ agg_frame_idx' = agg_frame_idx + 1
    /\ UNCHANGED <<apc, video, chart_failure, agg_raised, analysis,
                   image_result>>
    /\ UNCHANGED notAggVars

\* cap.read() returns no frame: the loop ends, the statistics are computed,
\* the charts are rendered and the result is built.
BuildResult ==
    /\ apc = "loop"
    /\ video.empty <=> agg_frame_idx = 0
    /\ \E failing \in ChartFailures :
          /\ failing # "none" => Len(vehicle_counts) > 0
          /\ chart_failure' = failing
          /\ \E w \in (IF weather_conditions # <<>>
                       THEN MostCommon(weather_conditions) ELSE {"Clear"}) :
                analysis' =
                  [weather |-> w,
                   totalFrames |-> agg_extracted_count,
                   vehicleCount |-> Sum(vehicle_counts),
                   humanCount |-> Sum(human_counts),
                   vehicleStats |-> Stats(vehicle_counts),
                   humanStats |-> Stats(human_counts),
                   imageQuality |->
                      [brightness |-> IF brightness_values # <<>>
                                      THEN Mean(brightness_values) ELSE 0,
                       contrast |-> IF contrast_values # <<>>
                                    THEN Mean(contrast_values) ELSE 0,
                       dynamicRange |->
                          IF brightness_values # <<>>
                          THEN MaxOf(brightness_values) - MinOf(brightness_values)
                          ELSE 0],
                   qualityScore |->
                      VideoQualityScore(
                          IF brightness_values # <<>>
                          THEN Mean(brightness_values) ELSE 0,
                          IF contrast_values # <<>>
                          THEN Mean(contrast_values) ELSE 0,
                          IF brightness_values # <<>>
                          THEN MaxOf(brightness_values) - MinOf(brightness_values)
                          ELSE 0),
                   avgConfidence |-> IF confidences # <<>>
                                     THEN Mean(confidences) ELSE 0,
                   weatherDistribution |-> Tally(weather_conditions, EmptyDict),
                   congestion_levels |->
                      [i \in 1..Len(vehicle_counts) |->
                          CongestionLevel(vehicle_counts[i])],
                   congestionDistribution |->
                      Tally([i \in 1..Len(vehicle_counts) |->
                                CongestionLevel(vehicle_counts[i])],
                            [low |-> 0, medium |-> 0, high |-> 0]),
                   perFrameData |->
                      [i \in 1..Len(vehicle_counts) |->
                          [frame_number |-> i - 1,
                           vehicle_count |-> vehicle_counts[i],
                           human_count |-> IF i <= Len(human_counts)
                                           THEN human_counts[i] ELSE 0,
                           weather_primary |-> IF i <= Len(weather_conditions)
                                               THEN weather_conditions[i]
                                               ELSE "Clear",
                           congestion_level |->
                              CongestionLevel(vehicle_counts[i])]],
                   vehicleCountsOverTime |-> vehicle_counts,
                   humanCountsOverTime |-> human_counts,
                   chartImages |-> ChartImages(failing)]
    /\ apc' = "done"
    /\ UNCHANGED <<video, frame_inputs, agg_frame_idx, agg_extracted_count,
                   frameLists, agg_raised, image_result>>
    /\ UNCHANGED notAggVars

\* f'{avg_confidence:.2f}': the confidence rounded to hundredths, halves to
\* the even neighbour.
FormatHundredths(x) ==
    LET q == x \div StatScale
        r == x % StatScale
    IN IF 2 * r > StatScale \/ (2 * r = StatScale /\ q % 2 = 1)
       THEN q + 1 ELSE q

\* analyze_image: the image is analysed as one frame and the result is built;
\* the vehicle count and the confidence appear in the texts 'summary' and
\* 'statistics' only.
AnalyzeImage ==
    /\ apc = "open"
    /\ video.media = "image"
    /\ \E f \in FrameResults :
          LET detections == DetectObjects(video.analyzer, f)
          IN /\ frame_inputs' = <<f>>
             /\ image_result' =
                  [statistics |->
                      [vehicles_detected |->
                          CountLabels(detections, VehicleLabels),
                       humans_detected |-> CountLabels(detections, HumanLabels),
                       weather |-> FrameWeather(video.analyzer, f),
                       quality_score |->
                          FormatHundredths(MeanScore(detections))],
                   humanCount |-> CountLabels(detections, HumanLabels),
                   imageQuality |-> [brightness |-> f.brightness,
                                     contrast |-> f.contrast]]
    /\ apc' = "image_done"
    /\ UNCHANGED <<video, agg_frame_idx, agg_extracted_count, frameLists,
                   chart_failure, agg_raised, analysis>>
    /\ UNCHANGED notAggVars

AggNext ==
    \/ OpenVideo
    \/ SamplingRaises
    \/ SkipFrame
    \/ AnalyzeFrame
    \/ BuildResult
    \/ AnalyzeImage

AggSpecInit ==
    /\ AggInit
    /\ StreamIdle
    /\ QualityIdle
    /\ SubmitIdle
    /\ RegistryIdle
    /\ WeatherIdle

AggSpec == AggSpecInit /\ [][AggNext]_vars

\* C16: for every non-empty sequence of analysed frames the values of
\* weatherDistribution sum to the number of frames, and so do low + medium +
\* high of congestionDistribution.
C16_DistributionsSum ==
    (apc = "done" /\ Len(vehicle_counts) > 0) =>
        /\ SumValues(analysis.weatherDistribution,
                     DOMAIN analysis.weatherDistribution) = Len(vehicle_counts)
        /\ analysis.congestionDistribution["low"]
             + analysis.congestionDistribution["medium"]
             + analysis.congestionDistribution["high"] = Len(vehicle_counts)
        /\ DOMAIN analysis.congestionDistribution = {"low", "medium", "high"}

C16_Witness ==
    /\ apc = "done"
    /\ Len(vehicle_counts) = 4
    /\ Cardinality(DOMAIN analysis.weatherDistribution) = 3
    /\ analysis.congestionDistribution["medium"] = 2

\* C17: the congestion level of a frame is low for 0 vehicles, medium for 1 to
\* 3 and high for 4 or more; the counts [0,1,3,4,5] give the distribution
\* low 1, medium 2, high 2.
C17_CongestionLevels ==
    apc = "done" =>
        /\ \A i \in 1..Len(vehicle_counts) :
              /\ vehicle_counts[i] = 0 => analysis.congestion_levels[i] = "low"
              /\ vehicle_counts[i] \in 1..3
                    => analysis.congestion_levels[i] = "medium"
              /\ vehicle_counts[i] >= 4
                    => analysis.congestion_levels[i] = "high"
        /\ vehicle_counts = <<0, 1, 3, 4, 5>> =>
              /\ analysis.congestionDistribution["low"] = 1
              /\ analysis.congestionDistribution["medium"] = 2
              /\ analysis.congestionDistribution["high"] = 2

C17_Witness ==
    /\ apc = "done"
    /\ vehicle_counts = <<0, 1, 3, 4, 5>>
    /\ analysis.congestion_levels = <<"low", "medium", "medium", "high", "high">>

\* The most frequent label that comes first in frame order.
FirstMostCommon(seq) ==
    seq[CHOOSE i \in 1..Len(seq) :
            /\ seq[i] \in MostCommon(seq)
            /\ \A k \in 1..(i - 1) : seq[k] \notin MostCommon(seq)]

\* C18: the overall weather is the most frequent label, and among several
\* most frequent labels the one that comes first in frame order.
C18_WeatherMajority ==
    (apc = "done" /\ Len(weather_conditions) > 0) =>
        /\ analysis.weather \in MostCommon(weather_conditions)
        /\ analysis.weather = FirstMostCommon(weather_conditions)

(* ------------------- app.py: submission of a job ----------------------- *)

\* Largest value of the wall clock, in seconds.
MaxNow == 2

\* The names of uploaded files.
Filenames == {"a.mp4", "b.mp4"}

\* OUTPUT_DIR / f'analysis_{timestamp}'
OutputPath(timestamp) == <<"output", "analysis", timestamp>>

\* output_path / video_file.filename
MediaPath(output_path, filename) == Append(output_path, filename)

SubmitInit ==
    /\ now = 0
    /\ requests = [r \in Requests |-> NewRequest("idle")]
    /\ directories = {}
    /\ files = <<>>
    /\ next_queue = 1

\* A second of wall clock time passes.
Tick ==
    /\ now < MaxNow
    /\ now' = now + 1
    /\ UNCHANGED <<requests, directories, files, next_queue>>
    /\ UNCHANGED notSubmitVars

\* A request with an uploaded file arrives: video_file = request.files['video'].
ReceiveRequest(r) ==
    /\ requests[r].pc = "idle"
    /\ \E fn \in Filenames :
          requests' = [requests EXCEPT ![r].pc = "received", ![r].filename = fn]
    /\ UNCHANGED <<now, directories, files, next_queue>>
    /\ UNCHANGED notSubmitVars

\* timestamp = int(time.time()); output_path.mkdir(exist_ok=True): an existing
\* directory is not an error.
CreateOutputDir(r) ==
    /\ requests[r].pc = "received"
    /\ requests' = [requests EXCEPT ![r].pc = "dir",
                                    ![r].timestamp = now,
                                    ![r].output_path = OutputPath(now)]
    /\ directories' = directories \cup {OutputPath(now)}
    /\ UNCHANGED <<now, files, next_queue>>
    /\ UNCHANGED notSubmitVars

\* video_file.save(str(video_path)): an existing file is overwritten.
SaveUpload(r) ==
    /\ requests[r].pc = "dir"
    /\ LET path == MediaPath(requests[r].output_path, requests[r].filename)
       IN /\ requests' = [requests EXCEPT ![r].pc = "saved",
                                          ![r].video_path = path]
          /\ files' = (path :> r) @@ files
    /\ UNCHANGED <<now, directories, next_queue>>
    /\ UNCHANGED notSubmitVars

\* generate_progress starts: three new queue.Queue() objects.
CreateQueues(r) ==
    /\ requests[r].pc = "saved"
    /\ requests' = [requests EXCEPT
                       ![r].pc = "streaming",
                       ![r].queues = next_queue..(next_queue + 2)]
    /\ next_queue' = next_queue + 3
    /\ UNCHANGED <<now, directories, files>>
    /\ UNCHANGED notSubmitVars

\* The worker thread opens str(video_path) and reads what the file holds.
ReadMedia(r) ==
    /\ requests[r].pc = "streaming"
    /\ requests' = [requests EXCEPT
                       ![r].pc = "analysed",
                       ![r].media_read = files[requests[r].video_path]]
    /\ UNCHANGED <<now, directories, files, next_queue>>
    /\ UNCHANGED notSubmitVars

SubmitNext ==
    \/ Tick
    \/ \E r \in Requests :
          \/ ReceiveRequest(r)
          \/ CreateOutputDir(r)
          \/ SaveUpload(r)
          \/ CreateQueues(r)
          \/ ReadMedia(r)

SubmitSpecInit ==
    /\ SubmitInit
    /\ StreamIdle
    /\ QualityIdle
    /\ AggIdle
    /\ RegistryIdle
    /\ WeatherIdle

SubmitSpec == SubmitSpecInit /\ [][SubmitNext]_vars

\* C13: two jobs never share job state: their queues, their uploaded media
\* file and their output directory are distinct, and a job reads the media it
\* uploaded, also when both are submitted in the same second with the same
\* filename.
C13_JobsIsolated ==
    \A r1, r2 \in Requests :
        r1 # r2 =>
            /\ requests[r1].queues \cap requests[r2].queues = {}
            /\ (requests[r1].output_path # <<>> /\ requests[r2].output_path # <<>>)
                  => requests[r1].output_path # requests[r2].output_path
            /\ (requests[r1].video_path # <<>> /\ requests[r2].video_path # <<>>)
                  => requests[r1].video_path # requests[r2].video_path
            /\ requests[r1].pc = "analysed" => requests[r1].media_read = r1

(* -------------------- app.py: the analyzer registry -------------------- *)

\* Largest number of get_analyzer calls.
MaxCalls == 3

\* Largest number of frames for which a job uses its analyzer.
MaxUses == 2

\* settings.get('detectionModel'): "absent" stands for a missing key.
DetectionSettings ==
    {"absent", "facebook/detr-resnet-50", "facebook/detr-resnet-101"}

\* settings.get('weatherModel'): "None" stands for a missing key.
WeatherSettings == {"None", "weather-vit"}

\* settings.get('detectionModel', 'facebook/detr-resnet-50')
DetectionModel(s) == IF s = "absent" THEN "facebook/detr-resnet-50" ELSE s

\* weather_model if weather_model else None
WeatherModel(s) == IF s \in {"None", ""} THEN "None" ELSE s

\* The thread is between the entry of get_analyzer and its return.
InGetAnalyzer(t) == calls[t].pc \in {"check", "create", "return"}

\* The names a job reads from the analyzer object h.
ModelNames(h) ==
    <<heap[h].detection_model_name, heap[h].weather_model_name>>

RegistryInit ==
    /\ analyzer_global = 0
    /\ heap = <<>>
    /\ calls = [t \in Threads |-> NewCall("idle")]
    /\ calls_made = 0

\* A request thread calls get_analyzer(settings). "alone" records that no
\* other call of get_analyzer overlaps with this one.
CallGetAnalyzer(t) ==
    /\ calls[t].pc = "idle"
    /\ calls_made < MaxCalls
    /\ \E d \in DetectionSettings, w \in WeatherSettings :
          calls' = [u \in Threads |->
              IF u = t
              THEN [NewCall("check") EXCEPT
                       !.detection_model = DetectionModel(d),
                       !.weather_model = w,
                       !.alone = \A v \in Threads \ {t} : ~InGetAnalyzer(v)]
              ELSE IF InGetAnalyzer(u)
                   THEN [calls[u] EXCEPT !.alone = FALSE]
                   ELSE calls[u]]
    /\ calls_made' = calls_made + 1
    /\ UNCHANGED <<analyzer_global, heap>>
    /\ UNCHANGED notRegistryVars

\* if _analyzer is None or _analyzer.detection_model_name != detection_model
CheckAnalyzer(t) ==
    /\ calls[t].pc = "check"
    /\ calls' = [calls EXCEPT ![t].pc =
          IF \/ analyzer_global = 0
             \/ heap[analyzer_global].detection_model_name
                    # calls[t].detection_model
          THEN "create" ELSE "return"]
    /\ UNCHANGED <<analyzer_global, heap, calls_made>>
    /\ UNCHANGED notRegistryVars

\* Variant of CreateAnalyzer: an existing analyzer object is given the new
\* model names instead of being replaced by a new object.
CreateAnalyzerInPlace(t) ==
    /\ calls[t].pc = "create"
    /\ IF analyzer_global = 0
       THEN /\ heap' = Append(heap,
                  [detection_model_name |-> calls[t].detection_model,
                   weather_model_name |-> WeatherModel(calls[t].weather_model)])
            /\ analyzer_global' = Len(heap) + 1
       ELSE /\ heap' = [heap EXCEPT ![analyzer_global] =
                  [detection_model_name |-> calls[t].detection_model,
                   weather_model_name |-> WeatherModel(calls[t].weather_model)]]
            /\ UNCHANGED analyzer_global
    /\ calls' = [calls EXCEPT ![t].pc = "return"]
    /\ UNCHANGED calls_made
    /\ UNCHANGED notRegistryVars

\* _analyzer = VideoAnalyzer(detection_model_name=..., weather_model_name=...):
\* a new object is constructed and the global is bound to it.
CreateAnalyzer(t) ==
    /\ calls[t].pc = "create"
    /\ heap' = Append(heap,
          [detection_model_name |-> calls[t].detection_model,
           weather_model_name |-> WeatherModel(calls[t].weather_model)])
    /\ analyzer_global' = Len(heap) + 1
    /\ calls' = [calls EXCEPT ![t].pc = "return"]
    /\ UNCHANGED calls_made
    /\ UNCHANGED notRegistryVars

\* The constructor raises: "except Exception: return None". The caller's
\* run_analysis raises "Analysis module not available" and uses no analyzer.
CreateAnalyzerFails(t) ==
    /\ calls[t].pc = "create"
    /\ calls' = [calls EXCEPT ![t].pc = "job", ![t].analyzer = 0]
    /\ UNCHANGED <<analyzer_global, heap, calls_made>>
    /\ UNCHANGED notRegistryVars

\* return _analyzer, and "analyzer = get_analyzer(settings)" in the caller:
\* the global is read again and the job keeps the handle.
ReturnAnalyzer(t) ==
    /\ calls[t].pc = "return"
    /\ calls' = [calls EXCEPT ![t].pc = "job",
                              ![t].analyzer = analyzer_global,
                              ![t].captured = ModelNames(analyzer_global)]
    /\ UNCHANGED <<analyzer_global, heap, calls_made>>
    /\ UNCHANGED notRegistryVars

\* The job analyses one frame with its analyzer: it reads the model names of
\* the object behind its handle. "current" records what the global was bound
\* to at that time.
UseAnalyzer(t) ==
    /\ calls[t].pc = "job"
    /\ calls[t].analyzer # 0
    /\ Len(calls[t].seen) < MaxUses
    /\ calls' = [calls EXCEPT ![t].seen =
          Append(@, [names |-> ModelNames(calls[t].analyzer),
                     current |-> analyzer_global])]
    /\ UNCHANGED <<analyzer_global, heap, calls_made>>
    /\ UNCHANGED notRegistryVars

\* The job ends and the thread serves the next request.
FinishJob(t) ==
    /\ calls[t].pc = "job"
    /\ calls' = [calls EXCEPT ![t] = NewCall("idle")]
    /\ UNCHANGED <<analyzer_global, heap, calls_made>>
    /\ UNCHANGED notRegistryVars

RegistryNext ==
    \E t \in Threads :
        \/ CallGetAnalyzer(t)
        \/ CheckAnalyzer(t)
        \/ CreateAnalyzer(t)
        \/ CreateAnalyzerFails(t)
        \/ ReturnAnalyzer(t)
        \/ UseAnalyzer(t)
        \/ FinishJob(t)

RegistrySpecInit ==
    /\ RegistryInit
    /\ WeatherIdle
    /\ StreamIdle
    /\ QualityIdle
    /\ AggIdle
    /\ SubmitIdle

RegistrySpec == RegistrySpecInit /\ [][RegistryNext]_vars

\* C14: a job uses the analyzer handle it captured at submission for all its
\* frames, and the model names it sees through the handle are those of the
\* capture, also after a later get_analyzer call has replaced the global.
C14_SnapshotStable ==
    \A t \in Threads :
        (calls[t].pc = "job" /\ calls[t].analyzer # 0) =>
            /\ ModelNames(calls[t].analyzer) = calls[t].captured
            /\ \A i \in 1..Len(calls[t].seen) :
                  calls[t].seen[i].names = calls[t].captured

C14_Witness ==
    \E t \in Threads :
        /\ calls[t].pc = "job"
        /\ calls[t].analyzer # 0
        /\ Len(calls[t].seen) = 2
        /\ calls[t].seen[1].current = calls[t].analyzer
        /\ calls[t].seen[2].current # calls[t].analyzer
        /\ heap[calls[t].seen[2].current].detection_model_name
              # calls[t].captured[1]

\* C15: a call of get_analyzer that no other call overlaps returns an analyzer
\* with the detection model and the weather model of its settings.
C15_HandleMatchesSettings ==
    \A t \in Threads :
        (calls[t].pc = "job" /\ calls[t].analyzer # 0 /\ calls[t].alone) =>
            /\ calls[t].captured[1] = calls[t].detection_model
            /\ calls[t].captured[2] = WeatherModel(calls[t].weather_model)

(* --------------------- further properties of the stream ---------------- *)

FallbackMessages ==
    {"Analysis completed but no result returned",
     "Analysis completed but no result returned. Thread finished but result queue is empty."}

\* C28: the generator never raises its fallback failure: whenever the polling
\* loop has ended without a result, the worker has ended and result_queue or
\* error_queue holds its outcome, and the retry loop is in its first attempt.
C28_FallbackUnreachable ==
    /\ raised \notin FallbackMessages
    /\ (cpc \in {"join", "retry"} /\ result = NoResult) =>
          /\ ~is_alive
          /\ (result_queue # <<>> \/ error_queue # <<>>)
    /\ cpc = "retry" => attempt = 0

C28_Witness ==
    /\ cpc = "retry"
    /\ result = NoResult
    /\ wpc = "done"
    /\ error_queue # <<>>

\* C29: every call of get_analyzer that returns an analyzer returns one whose
\* detection_model_name is the detection model the call asked for, also when
\* calls of different request threads overlap.
C29_ConcurrentCallsMatch ==
    \A t \in Threads :
        (calls[t].pc = "job" /\ calls[t].analyzer # 0) =>
            calls[t].captured[1] = calls[t].detection_model

(* ------------------ further properties of the aggregation -------------- *)

\* vehicle_stats and human_stats with every entry 0.
ZeroStats ==
    [median |-> 0, mean |-> 0, min |-> 0, max |-> 0, std_dev_squared |-> 0]

\* analyze_video has returned or raised.
AggEnded == apc \in {"done", "raised"}

\* C21: for a video from which no frame is read, analyze_video returns a
\* result whose statistics are all zero and divides by zero nowhere.
C21_EmptyVideoAllZero ==
    (video # <<>> /\ video.media = "video" /\ video.empty /\ AggEnded) =>
        /\ apc = "done"
        /\ agg_raised = ""
        /\ analysis.totalFrames = 0
        /\ analysis.vehicleCount = 0
        /\ analysis.humanCount = 0
        /\ analysis.vehicleStats = ZeroStats
        /\ analysis.humanStats = ZeroStats
        /\ analysis.imageQuality =
              [brightness |-> 0, contrast |-> 0, dynamicRange |-> 0]
        /\ analysis.qualityScore = 0
        /\ analysis.avgConfidence = 0

\* The frame was analysed without a detection model or its detection call
\* raised.
DetectionDegraded(i) ==
    \/ video.analyzer.detection_model = "None"
    \/ frame_inputs[i].detector_raises

\* The frame was analysed without a weather model or its weather call raised.
WeatherDegraded(i) ==
    \/ video.analyzer.weather_model = "None"
    \/ frame_inputs[i].weather_raises

\* C24: a frame analysed without a detection model, or whose detection call
\* raises, counts 0 vehicles and 0 humans with mean score 0; a frame analysed
\* without a weather model, or whose weather call raises, gets the label of
\* the image heuristic; analyze_video does not raise, the loop goes on and the
\* result counts every analysed frame.
C24_DegradeNeverAbort ==
    (video.media = "video" /\ Len(frame_inputs) > 0) =>
        /\ apc \in {"loop", "done"}
        /\ agg_raised = ""
        /\ \A i \in 1..Len(frame_inputs) :
              /\ DetectionDegraded(i) =>
                    /\ vehicle_counts[i] = 0
                    /\ human_counts[i] = 0
                    /\ confidences[i] = 0
              /\ WeatherDegraded(i) =>
                    weather_conditions[i] = frame_inputs[i].heuristic
        /\ apc = "done" => analysis.totalFrames = Len(frame_inputs)

C24_Witness ==
    /\ apc = "done"
    /\ video.analyzer.detection_model = "loaded"
    /\ Len(frame_inputs) = 3
    /\ frame_inputs[2].detector_raises
    /\ frame_inputs[2].weather_raises
    /\ vehicle_counts = <<1, 0, 3>>

\* C25: when the rendering of a chart raises, analyze_video still returns a
\* result, and the chart set of that result is empty.
C25_ChartFailureEmptySet ==
    (apc = "done" /\ chart_failure # "none") => analysis.chartImages = {}

\* C26: the vehicle count of a frame is the number of its detections with a
\* vehicle label, the human count the number labelled person, and the mean
\* score the mean of all scores (0 without detections); the result of a still
\* image reports these as vehicleCount, humanCount and meanDetectionScore
\* together with the vehicle statistics of the one frame.
C26_CountsReported ==
    /\ apc \in {"loop", "done"} =>
          \A i \in 1..Len(frame_inputs) :
              LET detections ==
                      IF DetectionDegraded(i) THEN <<>>
                      ELSE frame_inputs[i].detections
              IN /\ vehicle_counts[i] = CountLabels(detections, VehicleLabels)
                 /\ human_counts[i] = CountLabels(detections, HumanLabels)
                 /\ Len(detections) * confidences[i]
                       = StatScale * Sum([k \in 1..Len(detections) |->
                                             detections[k].score])
    /\ apc = "image_done" =>
          LET detections ==
                  IF DetectionDegraded(1) THEN <<>>
                  ELSE frame_inputs[1].detections
              vc == CountLabels(detections, VehicleLabels)
          IN /\ image_result.humanCount = CountLabels(detections, HumanLabels)
             /\ "vehicleCount" \in DOMAIN image_result
             /\ image_result["vehicleCount"] = vc
             /\ "avgConfidence" \in DOMAIN image_result
             /\ "vehicleStats" \in DOMAIN image_result
             /\ image_result["vehicleStats"] =
                   [median |-> vc * StatScale, mean |-> vc * StatScale,
                    min |-> vc, max |-> vc, std_dev_squared |-> 0]

\* C27: after every iteration of the frame loop the seven per-frame lists
\* have length extracted_count; in the result perFrameData carries the frame
\* numbers 0..n-1 in order, totalFrames = n = len(vehicleCountsOverTime), and
\* vehicleCount and humanCount are the sums of the per-frame series.
C27_ListsInStep ==
    /\ apc \in {"loop", "done"} =>
          /\ Len(vehicle_counts) = agg_extracted_count
          /\ Len(human_counts) = agg_extracted_count
          /\ Len(confidences) = agg_extracted_count
          /\ Len(weather_conditions) = agg_extracted_count
          /\ Len(brightness_values) = agg_extracted_count
          /\ Len(contrast_values) = agg_extracted_count
          /\ Len(frame_images) = agg_extracted_count
    /\ apc = "done" =>
          /\ Len(analysis.perFrameData) = agg_extracted_count
          /\ \A i \in 1..Len(analysis.perFrameData) :
                analysis.perFrameData[i].frame_number = i - 1
          /\ analysis.totalFrames = agg_extracted_count
          /\ Len(analysis.vehicleCountsOverTime) = agg_extracted_count
          /\ analysis.vehicleCount = Sum(analysis.vehicleCountsOverTime)
          /\ analysis.humanCount = Sum(analysis.humanCountsOverTime)

C27_Witness ==
    /\ apc = "done"
    /\ agg_extracted_count = 3
    /\ agg_frame_idx = 6
    /\ confidences[2] = 0
    /\ analysis.vehicleCount = 4
    /\ analysis.humanCount = 1

====
